---- MODULE Spec2Model ----
(***************************************************************************)
(* Model of the SpiderFoot plug-in sfp_searchtld (modules/sfp_searchtld.py) *)
(* The main thread runs start(): it walks the TLD list, accumulates         *)
(* candidates in targetList and hands full lists to tryTldWrapper, which    *)
(* spawns one tryTld worker thread per candidate, waits until no thread     *)
(* whose name starts with "sfp_searchtld_" is alive, and then calls         *)
(* sendEvent for every candidate that resolved.                             *)
(***************************************************************************)
EXTENDS Integers, Sequences, FiniteSets, TLC

(***************************************************************************)
(* Bounds of the model.                                                     *)
(***************************************************************************)
\* longest TLD list (in lines) the run is given
MaxLines == 2
\* largest value of opts['maxthreads'] the run is configured with
MaxThreads == 1

(***************************************************************************)
(* Inputs: the values the environment hands to the plug-in.                 *)
(***************************************************************************)
\* lines a TLD list is made of: two TLDs (one not yet lower-cased), a comment
Lines == {"com", "XYZ", "#c"}
\* targets given to setup()
Targets == {"acme.com", "acme.co.xyz"}
\* zones for which sf.checkDnsWildcard may answer True
WildcardCandidates == {"xyz", "co.com"}
\* opts['commontlds'] of the run
CommonTlds == <<"co">>
\* a page body returned by sf.fetchUrl
Page == "<html>"

(***************************************************************************)
(* String helpers (Python str methods used by the module).                  *)
(***************************************************************************)
UpperCs == "ABCDEFGHIJKLMNOPQRSTUVWXYZ"
LowerCs == "abcdefghijklmnopqrstuvwxyz"

\* the n-th character of s, as a string of length 1
CharAt(s, n) == SubSeq(s, n, n)

\* str.startswith
StartsWith(s, p) == Len(s) >= Len(p) /\ SubSeq(s, 1, Len(p)) = p

LowerChar(c) ==
    IF \E n \in 1..Len(UpperCs) : CharAt(UpperCs, n) = c
    THEN CharAt(LowerCs, CHOOSE n \in 1..Len(UpperCs) : CharAt(UpperCs, n) = c)
    ELSE c

\* str.lower from the n-th character on
RECURSIVE LowerFrom(_, _)
LowerFrom(s, n) ==
    IF n > Len(s) THEN ""
    ELSE LowerChar(CharAt(s, n)) \o LowerFrom(s, n + 1)

\* str.lower
Lower(s) == LowerFrom(s, 1)

\* position of the first newline of s, 0 when there is none
RECURSIVE FindNewline(_, _)
FindNewline(s, n) ==
    IF n > Len(s) THEN 0
    ELSE IF CharAt(s, n) = "\n" THEN n
    ELSE FindNewline(s, n + 1)

\* str.splitlines from the n-th character on
RECURSIVE SplitlinesFrom(_, _)
SplitlinesFrom(s, n) ==
    IF n > Len(s) THEN << >>
    ELSE LET p == FindNewline(s, n)
         IN  IF p = 0 THEN << SubSeq(s, n, Len(s)) >>
             ELSE << SubSeq(s, n, p - 1) >> \o SplitlinesFrom(s, p + 1)

\* str.splitlines for "\n" line ends: a trailing newline opens no empty line
Splitlines(s) == SplitlinesFrom(s, 1)

\* the text of a TLD list file: every line terminated by a newline
RECURSIVE JoinLines(_)
JoinLines(ls) ==
    IF Len(ls) = 0 THEN ""
    ELSE Head(ls) \o "\n" \o JoinLines(Tail(ls))

\* every TLD list text of at most MaxLines lines
TldFiles == { JoinLines(ls) : ls \in UNION { [1..n -> Lines] : n \in 0..MaxLines } }

\* position of the first dot of s, 0 when there is none
RECURSIVE FindDot(_, _)
FindDot(s, n) ==
    IF n > Len(s) THEN 0
    ELSE IF CharAt(s, n) = "." THEN n
    ELSE FindDot(s, n + 1)

\* sf.domainKeyword: the first label of the target domain
DomainKeyword(domain) ==
    LET p == FindDot(domain, 1)
    IN  IF p = 0 THEN domain ELSE SubSeq(domain, 1, p - 1)

\* name given to the worker thread of a candidate
ThreadName(tld) == "sfp_searchtld_" \o tld

VARIABLES
    opts,           \* self.opts
    baseDomain,     \* self.baseDomain
    tldlistFetch,   \* what sf.fetchUrl(opts['tldlist']) answers
    wildcardZones,  \* zones for which sf.checkDnsWildcard answers True
    stopped,        \* what self.checkForStop() answers
    eventsAtStop,   \* number of events reported when the run was stopped
    pc,             \* position of the main thread:
                    \*   "start"    line 129
                    \*   "list"     line 138, sf.fetchUrl is answering the list
                    \*   "tld"      line 142, the top of a TLD iteration
                    \*   "tld_wild" line 146, sf.checkDnsWildcard is answering
                    \*   "tld_put"  line 154, checkForStop() answered False
                    \*   "sub"      line 162, the top of a sub-TLD iteration
                    \*   "sub_ask"  line 168, checkForStop() answered False
                    \*   "sub_wild" line 168, sf.checkDnsWildcard is answering
                    \*   "leftover" line 178
                    \*   "spawn"    lines 86-100 of tryTldWrapper
                    \*   "emit"     line 102, the result loop
                    \*   "gate"     line 115 of sendEvent, the result is stored
                    \*   "fetch"    line 119, sf.fetchUrl is answering
                    \*   "done"     start() has returned
    keyword,        \* start(): keyword
    lines,          \* start(): the lower-cased, split TLD list
    i,              \* start(): index of the TLD being processed
    j,              \* start(): index of the sub-TLD being processed
    targetList,     \* start(): targetList
    tldList,        \* tryTldWrapper(): tldList
    k,              \* tryTldWrapper(): index of the next thread to spawn
    ret,            \* call site tryTldWrapper returns to
    tldResults,     \* self.tldResults
    pending,        \* tryTldWrapper(): keys still to visit in the result loop
    result,         \* sendEvent(): result, "" outside of sendEvent
    threads,        \* the live worker threads (threading.enumerate())
    nthreads,       \* number of worker threads started so far
    results,        \* self.results
    events,         \* SIMILARDOMAIN events handed to notifyListeners
    probes,         \* content fetches issued by sendEvent, with their answer
    wildcardCalls,  \* zones sf.checkDnsWildcard was called with
    dispatched,     \* the lists tryTldWrapper was called with
    generated       \* candidates that reached the batching step of start(),
                    \* each with the index of its TLD line

vars == << opts, baseDomain, tldlistFetch, wildcardZones, stopped,
           eventsAtStop, pc, keyword,
           lines, i, j, targetList, tldList, k, ret, tldResults, pending,
           result, threads, nthreads, results, events, probes, wildcardCalls,
           dispatched, generated >>

\* the empty dict()
EmptyDict == [ x \in {} |-> TRUE ]

\* d = {key: value} in place of d[key] = value
DictSetFresh(d, key, value) == [ x \in {key} |-> value ]

\* d[key] = value on a dict
DictSet(d, key, value) ==
    [ x \in (DOMAIN d) \cup {key} |-> IF x = key THEN value ELSE d[x] ]

\* answers of sf.fetchUrl: 'content' is None, or a text
NoContent == [ isNone |-> TRUE, content |-> "" ]
Content(text) == [ isNone |-> FALSE, content |-> text ]

Init ==
    /\ opts \in [ activeonly : BOOLEAN, checkcommon : BOOLEAN,
                  commontlds : {CommonTlds}, skipwildcards : BOOLEAN,
                  maxthreads : 1..MaxThreads ]
    /\ baseDomain \in Targets
    /\ tldlistFetch \in {NoContent} \cup { Content(f) : f \in TldFiles }
    \* a run that never asks sf.checkDnsWildcard does not depend on its answers
    /\ wildcardZones \in IF opts.skipwildcards
                         THEN SUBSET WildcardCandidates ELSE { {} }
    /\ stopped = FALSE
    /\ eventsAtStop = 0
    /\ pc = "start"
    /\ keyword = ""
    /\ lines = << >>
    /\ i = 1
    /\ j = 1
    /\ targetList = << >>
    /\ tldList = << >>
    /\ k = 1
    /\ ret = "none"
    /\ tldResults = EmptyDict
    /\ pending = {}
    /\ result = ""
    /\ threads = {}
    /\ nthreads = 0
    /\ results = << >>
    /\ events = << >>
    /\ probes = << >>
    /\ wildcardCalls = << >>
    /\ dispatched = << >>
    /\ generated = << >>

(***************************************************************************)
(* Capabilities of the framework the module calls.                          *)
(***************************************************************************)
\* sf.checkDnsWildcard(zone)
CheckDnsWildcard(zone) == zone \in wildcardZones

\* self.checkForStop()
CheckForStop == stopped

(***************************************************************************)
(* Conditions of start(), tryTldWrapper() and sendEvent().                  *)
(***************************************************************************)
\* line 139: the TLD list could not be fetched
ListMissing(fetch) == fetch.isNone

\* line 143 taking only "# " as the start of a comment
IsCommentHashSpace(tld) == StartsWith(tld, "# ")

\* line 143: comment line of the TLD list
IsComment(tld) == StartsWith(tld, "#")

\* line 146 with the option test inverted
TldSkippedInverted(tld) == ~ opts.skipwildcards /\ CheckDnsWildcard(tld)

\* line 146: the TLD is skipped as a wildcard zone
TldSkipped(tld) == opts.skipwildcards /\ CheckDnsWildcard(tld)

\* line 168: the sub-TLD combination is skipped as a wildcard zone
SubSkipped(zone) == opts.skipwildcards /\ CheckDnsWildcard(zone)

\* lines 154, 171: the candidate is appended to targetList (else: flush)
HasRoom(list) == Len(list) <= opts.maxthreads

\* line 178 with >= in place of >
HasLeftoverAlways(list) == Len(list) >= 0

\* line 178: something is left over to scan
HasLeftover(list) == Len(list) > 0

\* lines 95-97 with a prefix no worker thread carries
FoundWrongPrefix(ts) == \E rt \in ts : StartsWith(rt.name, "sfp_searchtld-")

\* lines 95-97 counting every live thread, the main thread included
FoundAnyThread(ts) == TRUE

\* lines 95-97: some live thread carries the name prefix of the workers
Found(ts) == \E rt \in ts : StartsWith(rt.name, "sfp_searchtld_")

\* line 103 without the test of the outcome
ResolvedAlways(d, res) == TRUE

\* line 103: the candidate resolved
Resolved(d, res) == d[res]

\* line 108 comparing with the keyword instead of the target
IsBaseDomainKeyword(res) == res = keyword

\* line 108: the result is the target itself
IsBaseDomain(res) == res = baseDomain

\* line 120 without the test of the content
HasContentAlways(page) == TRUE

\* line 120: the page fetch returned content
HasContent(page) == ~ page.isNone

\* line 149
TryDomain(tld) == keyword \o "." \o tld

\* line 163
SubDomain(subtld, tld) == keyword \o "." \o subtld \o "." \o tld

\* line 168 asking about the sub-TLD alone
SubZoneNoTld(subtld, tld) == subtld

\* line 168: the zone of a sub-TLD combination
SubZone(subtld, tld) == subtld \o "." \o tld

\* a candidate with the TLD line whose iteration generated it
Candidate(name) == [ cand |-> name, line |-> i ]

inputs == << opts, baseDomain, tldlistFetch, wildcardZones >>
history == << results, events, probes >>
cancel == << stopped, eventsAtStop >>
wrapper == << tldList, k, ret, tldResults, pending, result, threads, nthreads >>

(***************************************************************************)
(* start()                                                                  *)
(***************************************************************************)
\* lines 129-138: the keyword is extracted, sf.fetchUrl is called for the
\* TLD list
Start ==
    /\ pc = "start"
    /\ keyword' = DomainKeyword(baseDomain)
    /\ pc' = "list"
    /\ UNCHANGED << inputs, cancel, lines, i, j, targetList, wrapper, history,
                    wildcardCalls, dispatched, generated >>

\* lines 138-142: sf.fetchUrl answers; the list is lower-cased and split, or
\* there is none
StartList ==
    /\ pc = "list"
    /\ IF ListMissing(tldlistFetch)
       THEN /\ pc' = "leftover"
            /\ lines' = lines
       ELSE \E text \in { Lower(tldlistFetch.content) } :
               /\ pc' = "tld"
               /\ lines' = Splitlines(text)
    /\ UNCHANGED << inputs, cancel, keyword, i, j, targetList, wrapper,
                    history, wildcardCalls, dispatched, generated >>

\* the call of tryTldWrapper without line 79, the dict is kept
CallWrapperKeepResults(site) ==
    /\ tldList' = targetList
    /\ tldResults' = tldResults
    /\ k' = 1
    /\ ret' = site
    /\ pc' = "spawn"
    /\ dispatched' = Append(dispatched, targetList)
    /\ UNCHANGED << targetList, pending, result, threads, nthreads >>

\* the call self.tryTldWrapper(targetList) from call site site (lines 78-82)
CallWrapper(site) ==
    /\ tldList' = targetList
    /\ tldResults' = EmptyDict
    /\ k' = 1
    /\ ret' = site
    /\ pc' = "spawn"
    /\ dispatched' = Append(dispatched, targetList)
    /\ UNCHANGED << targetList, pending, result, threads, nthreads >>

\* where start() goes on after the bare candidate of TLD i was handled
AfterTld ==
    IF opts.checkcommon
    THEN pc' = "sub" /\ j' = 1 /\ i' = i
    ELSE pc' = "tld" /\ j' = j /\ i' = i + 1

\* lines 143-144: a comment line is skipped
TldComment ==
    /\ pc = "tld" /\ i <= Len(lines)
    /\ IsComment(lines[i])
    /\ i' = i + 1
    /\ UNCHANGED << inputs, cancel, pc, keyword, lines, j, targetList, wrapper,
                    history, wildcardCalls, dispatched, generated >>

\* the zones line 146 asks sf.checkDnsWildcard about
TldWildcardCalls(tld) ==
    IF opts.skipwildcards THEN Append(wildcardCalls, tld) ELSE wildcardCalls

\* line 146: sf.checkDnsWildcard(tld) is called when skipwildcards is set
TldAsk ==
    /\ pc = "tld" /\ i <= Len(lines)
    /\ ~ IsComment(lines[i])
    /\ wildcardCalls' = TldWildcardCalls(lines[i])
    /\ pc' = "tld_wild"
    /\ UNCHANGED << inputs, cancel, keyword, lines, i, j, targetList, wrapper,
                    history, dispatched, generated >>

\* lines 146-147: the answer is True, a wildcard TLD is skipped
TldWildcard ==
    /\ pc = "tld_wild"
    /\ TldSkipped(lines[i])
    /\ i' = i + 1
    /\ pc' = "tld"
    /\ UNCHANGED << inputs, cancel, keyword, lines, j, targetList, wrapper,
                    history, wildcardCalls, dispatched, generated >>

\* lines 146-152: no wildcard TLD; the run was stopped, start() returns
TldStop ==
    /\ pc = "tld_wild"
    /\ ~ TldSkipped(lines[i])
    /\ CheckForStop
    /\ pc' = "done"
    /\ UNCHANGED << inputs, cancel, keyword, lines, i, j, targetList, wrapper,
                    history, wildcardCalls, dispatched, generated >>

\* lines 146-151: no wildcard TLD; checkForStop() answers False
TldCheck ==
    /\ pc = "tld_wild"
    /\ ~ TldSkipped(lines[i])
    /\ ~ CheckForStop
    /\ pc' = "tld_put"
    /\ UNCHANGED << inputs, cancel, keyword, lines, i, j, targetList, wrapper,
                    history, wildcardCalls, dispatched, generated >>

\* lines 154-155: keyword.tld is appended to targetList
TldAppend ==
    /\ pc = "tld_put"
    /\ HasRoom(targetList)
    /\ generated' = Append(generated, Candidate(TryDomain(lines[i])))
    /\ targetList' = Append(targetList, TryDomain(lines[i]))
    /\ AfterTld
    /\ UNCHANGED << inputs, cancel, keyword, lines, wrapper, history,
                    wildcardCalls, dispatched >>

\* lines 156-157: targetList is full, it is handed to tryTldWrapper
TldFlush ==
    /\ pc = "tld_put"
    /\ ~ HasRoom(targetList)
    /\ generated' = Append(generated, Candidate(TryDomain(lines[i])))
    /\ CallWrapper("tld")
    /\ UNCHANGED << inputs, cancel, keyword, lines, i, j, history,
                    wildcardCalls >>

\* line 142: the TLD list is exhausted
TldDone ==
    /\ pc = "tld" /\ i > Len(lines)
    /\ pc' = "leftover"
    /\ UNCHANGED << inputs, cancel, keyword, lines, i, j, targetList, wrapper,
                    history, wildcardCalls, dispatched, generated >>

\* lines 165-166: the run was stopped, start() returns
SubStop ==
    /\ pc = "sub" /\ j <= Len(opts.commontlds)
    /\ CheckForStop
    /\ pc' = "done"
    /\ UNCHANGED << inputs, cancel, keyword, lines, i, j, targetList, wrapper,
                    history, wildcardCalls, dispatched, generated >>

\* line 165: checkForStop() answers False
SubCheck ==
    /\ pc = "sub" /\ j <= Len(opts.commontlds)
    /\ ~ CheckForStop
    /\ pc' = "sub_ask"
    /\ UNCHANGED << inputs, cancel, keyword, lines, i, j, targetList, wrapper,
                    history, wildcardCalls, dispatched, generated >>

\* the zones line 168 asks sf.checkDnsWildcard about
SubWildcardCalls(zone) ==
    IF opts.skipwildcards THEN Append(wildcardCalls, zone) ELSE wildcardCalls

\* line 168: sf.checkDnsWildcard(subtld.tld) is called when skipwildcards is set
SubAsk ==
    /\ pc = "sub_ask"
    /\ wildcardCalls' = SubWildcardCalls(SubZone(opts.commontlds[j], lines[i]))
    /\ pc' = "sub_wild"
    /\ UNCHANGED << inputs, cancel, keyword, lines, i, j, targetList, wrapper,
                    history, dispatched, generated >>

\* lines 168-169: the answer is True, a wildcard sub-TLD combination is
\* passed over
SubWildcard ==
    /\ pc = "sub_wild"
    /\ SubSkipped(SubZone(opts.commontlds[j], lines[i]))
    /\ j' = j + 1
    /\ pc' = "sub"
    /\ UNCHANGED << inputs, cancel, keyword, lines, i, targetList, wrapper,
                    history, wildcardCalls, dispatched, generated >>

\* lines 168-172: no wildcard zone; keyword.subtld.tld is appended to targetList
SubAppend ==
    /\ pc = "sub_wild"
    /\ ~ SubSkipped(SubZone(opts.commontlds[j], lines[i]))
    /\ HasRoom(targetList)
    /\ generated' = Append(generated,
                          Candidate(SubDomain(opts.commontlds[j], lines[i])))
    /\ targetList' = Append(targetList, SubDomain(opts.commontlds[j], lines[i]))
    /\ j' = j + 1
    /\ pc' = "sub"
    /\ UNCHANGED << inputs, cancel, keyword, lines, i, wrapper, history,
                    wildcardCalls, dispatched >>

\* lines 168-174: no wildcard zone; targetList is full, it is handed to
\* tryTldWrapper
SubFlush ==
    /\ pc = "sub_wild"
    /\ ~ SubSkipped(SubZone(opts.commontlds[j], lines[i]))
    /\ ~ HasRoom(targetList)
    /\ generated' = Append(generated,
                          Candidate(SubDomain(opts.commontlds[j], lines[i])))
    /\ CallWrapper("sub")
    /\ UNCHANGED << inputs, cancel, keyword, lines, i, j, history,
                    wildcardCalls >>

\* line 162: the sub-TLD list is exhausted, on to the next TLD
SubDone ==
    /\ pc = "sub" /\ j > Len(opts.commontlds)
    /\ pc' = "tld"
    /\ i' = i + 1
    /\ UNCHANGED << inputs, cancel, keyword, lines, j, targetList, wrapper,
                    history, wildcardCalls, dispatched, generated >>

\* lines 178-179: whatever is left over is scanned
Leftover ==
    /\ pc = "leftover"
    /\ HasLeftover(targetList)
    /\ CallWrapper("leftover")
    /\ UNCHANGED << inputs, cancel, keyword, lines, i, j, history,
                    wildcardCalls, generated >>

\* lines 178, 181: nothing is left over, start() returns
Finish ==
    /\ pc = "leftover"
    /\ ~ HasLeftover(targetList)
    /\ pc' = "done"
    /\ UNCHANGED << inputs, cancel, keyword, lines, i, j, targetList, wrapper,
                    history, wildcardCalls, dispatched, generated >>

(***************************************************************************)
(* tryTldWrapper() and the worker threads                                   *)
(***************************************************************************)
driver == << keyword, lines, i, j, targetList, wildcardCalls, dispatched,
             generated >>

\* lines 86-90: one worker thread per candidate is created and started
Spawn ==
    /\ pc = "spawn" /\ k <= Len(tldList)
    /\ threads' = threads \cup
          { [ id |-> nthreads + 1, name |-> ThreadName(tldList[k]),
              target |-> tldList[k], batch |-> Len(dispatched),
              phase |-> "run", lookup |-> "pending" ] }
    /\ nthreads' = nthreads + 1
    /\ k' = k + 1
    /\ UNCHANGED << inputs, cancel, pc, driver, tldList, ret, tldResults,
                    pending, result, history >>

\* lines 71-76: the lookup of a worker returns or raises, the outcome is stored
TryTld(th) ==
    /\ th \in threads /\ th.phase = "run"
    /\ \E lookup \in {"returned", "raised"} :
          /\ tldResults' = DictSet(tldResults, th.target, lookup = "returned")
          /\ threads' = (threads \ {th}) \cup
                { [ th EXCEPT !.phase = "ret", !.lookup = lookup ] }
    /\ UNCHANGED << inputs, cancel, pc, driver, tldList, k, ret, pending,
                    result, nthreads, history >>

\* tryTld has returned: the thread ends and leaves threading.enumerate()
ThreadExit(th) ==
    /\ th \in threads /\ th.phase = "ret"
    /\ threads' = threads \ {th}
    /\ UNCHANGED << inputs, cancel, pc, driver, tldList, k, ret, tldResults,
                    pending, result, nthreads, history >>

\* lines 93-100: one round of the wait loop; line 102 once no worker is found
Poll ==
    /\ pc = "spawn" /\ k > Len(tldList)
    /\ IF Found(threads)
       THEN UNCHANGED << pc, pending >>
       ELSE pc' = "emit" /\ pending' = DOMAIN tldResults
    /\ UNCHANGED << inputs, cancel, driver, tldList, k, ret, tldResults,
                    result, threads, nthreads, history >>

\* lines 102-103: a candidate that did not resolve is passed over
EmitUnresolved(res) ==
    /\ pc = "emit" /\ res \in pending
    /\ ~ Resolved(tldResults, res)
    /\ pending' = pending \ {res}
    /\ UNCHANGED << inputs, cancel, pc, driver, tldList, k, ret, tldResults,
                    result, threads, nthreads, history >>

\* lines 108-109: sendEvent drops the target itself
SendBaseDomain(res) ==
    /\ pc = "emit" /\ res \in pending
    /\ Resolved(tldResults, res)
    /\ IsBaseDomain(res)
    /\ pending' = pending \ {res}
    /\ UNCHANGED << inputs, cancel, pc, driver, tldList, k, ret, tldResults,
                    result, threads, nthreads, history >>

\* lines 108-115: the result is stored, activeonly leads to the stop test
SendStore(res) ==
    /\ pc = "emit" /\ res \in pending
    /\ Resolved(tldResults, res)
    /\ ~ IsBaseDomain(res)
    /\ opts.activeonly
    /\ results' = Append(results, res)
    /\ pending' = pending \ {res}
    /\ result' = res
    /\ pc' = "gate"
    /\ UNCHANGED << inputs, cancel, driver, tldList, k, ret, tldResults,
                    threads, nthreads, events, probes >>

\* lines 116-119 without the return of line 117: the page is fetched
SendStoppedFetches ==
    /\ pc = "gate"
    /\ CheckForStop
    /\ pc' = "fetch"
    /\ UNCHANGED << inputs, cancel, driver, tldList, k, ret, tldResults,
                    pending, result, threads, nthreads, history >>

\* lines 116-117: the run was stopped, sendEvent returns
SendStopped ==
    /\ pc = "gate"
    /\ CheckForStop
    /\ pc' = "emit"
    /\ result' = ""
    /\ UNCHANGED << inputs, cancel, driver, tldList, k, ret, tldResults,
                    pending, threads, nthreads, history >>

\* lines 116, 119: checkForStop() answers False, sf.fetchUrl is called
SendCheck ==
    /\ pc = "gate"
    /\ ~ CheckForStop
    /\ pc' = "fetch"
    /\ UNCHANGED << inputs, cancel, driver, tldList, k, ret, tldResults,
                    pending, result, threads, nthreads, history >>

\* lines 119-122: sf.fetchUrl answers, a page with content is reported
SendProbed ==
    /\ pc = "fetch"
    /\ \E pageContent \in {NoContent, Content(Page)} :
          /\ probes' = Append(probes, [ url |-> "http://" \o result,
                                        page |-> pageContent ])
          /\ events' = IF HasContent(pageContent)
                       THEN Append(events, result) ELSE events
    /\ pc' = "emit"
    /\ result' = ""
    /\ UNCHANGED << inputs, cancel, driver, tldList, k, ret, tldResults,
                    pending, threads, nthreads, results >>

\* lines 123-125 reporting only while the run is not stopped
SendDirectUnlessStopped(res) ==
    /\ pc = "emit" /\ res \in pending
    /\ Resolved(tldResults, res)
    /\ ~ IsBaseDomain(res)
    /\ ~ opts.activeonly
    /\ results' = Append(results, res)
    /\ events' = IF CheckForStop THEN events ELSE Append(events, res)
    /\ pending' = pending \ {res}
    /\ UNCHANGED << inputs, cancel, pc, driver, tldList, k, ret, tldResults,
                    result, threads, nthreads, probes >>

\* lines 112, 123-125: the result is stored and reported
SendDirect(res) ==
    /\ pc = "emit" /\ res \in pending
    /\ Resolved(tldResults, res)
    /\ ~ IsBaseDomain(res)
    /\ ~ opts.activeonly
    /\ results' = Append(results, res)
    /\ events' = Append(events, res)
    /\ pending' = pending \ {res}
    /\ UNCHANGED << inputs, cancel, pc, driver, tldList, k, ret, tldResults,
                    result, threads, nthreads, probes >>

\* tryTldWrapper returns to line 158 or 175 (targetList = list()) or to 181
Return ==
    /\ pc = "emit" /\ pending = {}
    /\ IF ret = "tld"
       THEN targetList' = << >> /\ AfterTld
       ELSE IF ret = "sub"
       THEN targetList' = << >> /\ pc' = "sub" /\ j' = j + 1 /\ i' = i
       ELSE targetList' = targetList /\ pc' = "done" /\ j' = j /\ i' = i
    /\ UNCHANGED << inputs, cancel, keyword, lines, wildcardCalls, dispatched,
                    generated, wrapper, history >>

(***************************************************************************)
(* Environment                                                              *)
(***************************************************************************)
\* the scan is asked to stop: checkForStop() answers True from now on
Cancel ==
    /\ ~ stopped /\ pc # "done"
    /\ stopped' = TRUE
    /\ eventsAtStop' = Len(events)
    /\ UNCHANGED << inputs, pc, driver, wrapper, history >>

Next ==
    \/ Start
    \/ StartList
    \/ TldComment
    \/ TldAsk
    \/ TldWildcard
    \/ TldStop
    \/ TldCheck
    \/ TldAppend
    \/ TldFlush
    \/ TldDone
    \/ SubStop
    \/ SubCheck
    \/ SubAsk
    \/ SubWildcard
    \/ SubAppend
    \/ SubFlush
    \/ SubDone
    \/ Leftover
    \/ Finish
    \/ Spawn
    \/ \E th \in threads : TryTld(th)
    \/ \E th \in threads : ThreadExit(th)
    \/ Poll
    \/ \E res \in pending : EmitUnresolved(res)
    \/ \E res \in pending : SendBaseDomain(res)
    \/ \E res \in pending : SendStore(res)
    \/ SendStopped
    \/ SendCheck
    \/ SendProbed
    \/ \E res \in pending : SendDirect(res)
    \/ Return
    \/ Cancel

Spec == Init /\ [][Next]_vars

\* the steps of the main thread
MainStep ==
    \/ Start \/ StartList
    \/ TldComment \/ TldAsk \/ TldWildcard \/ TldStop \/ TldCheck
    \/ TldAppend \/ TldFlush \/ TldDone
    \/ SubStop \/ SubCheck \/ SubAsk \/ SubWildcard \/ SubAppend \/ SubFlush
    \/ SubDone
    \/ Leftover \/ Finish
    \/ Spawn \/ Poll
    \/ \E res \in pending :
          \/ EmitUnresolved(res) \/ SendBaseDomain(res) \/ SendStore(res)
          \/ SendDirect(res)
    \/ SendStopped \/ SendCheck \/ SendProbed
    \/ Return

\* the steps of the worker threads
WorkerStep == \E th \in threads : TryTld(th) \/ ThreadExit(th)

\* the run under a fair scheduler: the main thread and the workers get to
\* run, every lookup and every fetch returns or raises
FairSpec == Init /\ [][Next]_vars /\ WF_vars(MainStep) /\ WF_vars(WorkerStep)

(***************************************************************************)
(* Properties                                                               *)
(***************************************************************************)
Range(s) == { s[n] : n \in 1..Len(s) }
Last(s) == s[Len(s)]

\* the lookups in flight: workers started whose tryTld has not returned
InFlight == { th \in threads : th.phase = "run" }

\* C1: at no point are more than opts['maxthreads'] resolutions in flight.
C1_ConcurrencyBound == Cardinality(InFlight) <= opts.maxthreads

\* C2: every list handed to tryTldWrapper holds at most opts['maxthreads']
\* candidates.
C2_BatchSizeBound ==
    \A n \in 1..Len(dispatched) : Len(dispatched[n]) <= opts.maxthreads

\* C3: the target domain itself is never stored in self.results and never
\* reported as a SIMILARDOMAIN event.
C3_NoBaseDomainResult ==
    /\ baseDomain \notin Range(results)
    /\ baseDomain \notin Range(events)

\* the target itself was generated, resolved, and sendEvent was called for it
C3_Witness ==
    /\ pc = "emit"
    /\ baseDomain \in DOMAIN tldResults
    /\ tldResults[baseDomain]
    /\ baseDomain \notin pending

\* C4: tryTldWrapper is a barrier: while it reads the outcomes and after it
\* has returned no worker thread is alive, and when it reads the outcomes
\* every candidate of the list has an outcome.
C4_Barrier ==
    /\ pc # "spawn" => threads = {}
    /\ pc = "emit" => \A n \in 1..Len(tldList) : tldList[n] \in DOMAIN tldResults

\* the outcomes of a list of several candidates are being read
C4_Witness ==
    /\ pc = "emit"
    /\ Len(tldList) >= 2
    /\ pending # {}

\* C5: lists are processed one after another: every live worker belongs to
\* the list dispatched last, and while that list is spawned and resolved no
\* outcome of an earlier list is left to report.
C5_BatchesSequential ==
    /\ \A th \in threads : th.batch = Len(dispatched)
    /\ pc = "spawn" => pending = {}
    /\ threads # {} => pending = {}

\* the workers of a second list run after the first list reported a result
C5_Witness ==
    /\ Len(dispatched) >= 2
    /\ threads # {}
    /\ results # << >>

\* C6 as stated: for a wildcard TLD only the bare candidate is skipped, every
\* combination with a non-wildcard sub-TLD zone is still generated.
C6_SubTldsStillGenerated ==
    (pc = "done" /\ ~ stopped /\ opts.skipwildcards /\ opts.checkcommon) =>
        \A n \in 1..Len(lines) :
            (~ IsComment(lines[n]) /\ CheckDnsWildcard(lines[n])) =>
                \A m \in 1..Len(opts.commontlds) :
                    ~ CheckDnsWildcard(SubZone(opts.commontlds[m], lines[n])) =>
                        \E g \in Range(generated) :
                            /\ g.cand = SubDomain(opts.commontlds[m], lines[n])
                            /\ g.line = n

\* C6 as amended: with skipwildcards the iteration of a wildcard TLD generates
\* no candidate at all, neither the bare one nor a sub-TLD combination.
C6_WildcardTldGeneratesNothing ==
    opts.skipwildcards =>
        \A g \in Range(generated) : ~ CheckDnsWildcard(lines[g.line])

\* a run passed a wildcard TLD whose sub-TLD zone is no wildcard, and
\* generated candidates for another TLD
C6_Witness ==
    /\ pc = "done" /\ ~ stopped
    /\ opts.skipwildcards /\ opts.checkcommon
    /\ generated # << >>
    /\ \E n \in 1..Len(lines) :
          /\ CheckDnsWildcard(lines[n])
          /\ ~ CheckDnsWildcard(SubZone(opts.commontlds[1], lines[n]))

\* C7: with skipwildcards the candidate of a wildcard zone is never put in
\* a list, never resolved and never reported.
C7_WildcardZoneNeverTried ==
    opts.skipwildcards =>
        \A zone \in wildcardZones :
            LET name == keyword \o "." \o zone
            IN  /\ name \notin Range(targetList)
                /\ \A n \in 1..Len(dispatched) : name \notin Range(dispatched[n])
                /\ \A th \in threads : th.target # name
                /\ name \notin DOMAIN tldResults
                /\ name \notin Range(results)
                /\ name \notin Range(events)

\* a wildcard sub-TLD zone and a wildcard TLD were asked about in a run that
\* resolved other candidates
C7_Witness ==
    /\ pc = "done"
    /\ opts.skipwildcards
    /\ wildcardZones = WildcardCandidates
    /\ wildcardZones \subseteq Range(wildcardCalls)
    /\ dispatched # << >>

\* C8: when the TLD list cannot be fetched the run ends with no result and
\* no event, and neither tryTldWrapper, tryTld nor checkDnsWildcard is called.
C8_NoListNoWork ==
    tldlistFetch.isNone =>
        /\ results = << >> /\ events = << >>
        /\ dispatched = << >> /\ nthreads = 0 /\ tldResults = EmptyDict
        /\ wildcardCalls = << >>
        /\ pc \in {"start", "list", "leftover", "done"}

\* a run without TLD list has returned
C8_Witness == tldlistFetch.isNone /\ pc = "done"

\* C9: with activeonly an event is reported only for a candidate that
\* resolved and whose page fetch returned content; a fetch without content
\* reports nothing.
C9_EventOnlyWithContent ==
    [][ opts.activeonly =>
          /\ events' # events =>
                /\ Resolved(tldResults, Last(events'))
                /\ Len(probes') = Len(probes) + 1
                /\ Last(probes').url = "http://" \o Last(events')
                /\ ~ Last(probes').page.isNone
          /\ (Len(probes') > Len(probes) /\ Last(probes').page.isNone) =>
                events' = events ]_vars

\* one page fetch returned no content, another one did and was reported
C9_Witness ==
    /\ opts.activeonly
    /\ events # << >>
    /\ \E n \in 1..Len(probes) : probes[n].page.isNone

\* C10 as stated: with activeonly every entry of self.results had its page
\* fetched with content.
C10_ResultsOnlyConfirmed ==
    opts.activeonly =>
        \A n \in 1..Len(results) :
            \E m \in 1..Len(probes) :
                /\ probes[m].url = "http://" \o results[n]
                /\ ~ probes[m].page.isNone

\* C10 as amended: a candidate visited by the result loop is appended to
\* self.results exactly when it resolved and is not the target, whatever
\* the page fetch answers and whether or not the run was stopped.
C10_ResultsHoldResolved ==
    [][ (pc = "emit" /\ pending' # pending) =>
          \E res \in pending :
             /\ pending' = pending \ {res}
             /\ IF tldResults[res] /\ res # baseDomain
                THEN results' = Append(results, res)
                ELSE results' = results ]_vars

\* self.results holds a candidate whose page fetch returned no content
C10_Witness ==
    /\ opts.activeonly
    /\ events = << >>
    /\ \E n \in 1..Len(probes) :
          /\ probes[n].page.isNone
          /\ \E m \in 1..Len(results) : probes[n].url = "http://" \o results[m]

\* C11 as stated: when the run is stopped after a list was handed to
\* tryTldWrapper from the loop, every candidate of that list that resolved,
\* is not the target and had no page fetch without content is reported.
C11_DispatchedBatchStillEmitted ==
    (pc = "emit" /\ pending = {} /\ ret \in {"tld", "sub"} /\ stopped) =>
        \A res \in DOMAIN tldResults :
            ( /\ tldResults[res]
              /\ res # baseDomain
              /\ ~ \E n \in 1..Len(probes) :
                      /\ probes[n].url = "http://" \o res
                      /\ probes[n].page.isNone )
            => res \in Range(events)

\* C11 as amended: once the run is stopped, a candidate the result loop
\* visits is reported at once exactly when it resolved, is not the target and
\* activeonly is unset; with activeonly set, the only event reported while the
\* run is stopped comes from a page fetch that was under way already.
C11_StoppedBatchReportedUnlessActiveOnly ==
    [][ /\ (pc = "emit" /\ stopped /\ pending' # pending) =>
              \E res \in pending :
                 /\ pending' = pending \ {res}
                 /\ IF tldResults[res] /\ res # baseDomain /\ ~ opts.activeonly
                    THEN events' = Append(events, res)
                    ELSE events' = events
        /\ (opts.activeonly /\ stopped /\ events' # events) => pc = "fetch"
      ]_vars

\* the run was stopped after a list was handed over from the loop, and a
\* candidate of that list was reported nevertheless
C11_Witness ==
    /\ pc = "emit" /\ pending = {}
    /\ ret \in {"tld", "sub"}
    /\ stopped
    /\ ~ opts.activeonly
    /\ Len(events) > eventsAtStop
    /\ Last(events) \in Range(tldList)

\* C12: once the run is stopped no further list is handed to tryTldWrapper:
\* the candidates accumulated so far are dropped, the leftover list included.
C12_NoBatchAfterStop ==
    [][ stopped => dispatched' = dispatched ]_vars

\* the bare candidates of the TLD lines n.. that are neither comments nor
\* skipped wildcard TLDs, each with its line
RECURSIVE BareCandidates(_)
BareCandidates(n) ==
    IF n > Len(lines) THEN << >>
    ELSE ( IF \/ StartsWith(lines[n], "#")
              \/ (opts.skipwildcards /\ lines[n] \in wildcardZones)
           THEN << >>
           ELSE << [ cand |-> keyword \o "." \o lines[n], line |-> n ] >> )
         \o BareCandidates(n + 1)

\* C13: without checkcommon a run that is not stopped generates exactly one
\* candidate keyword.tld per line that is no comment and no skipped wildcard
\* TLD, in list order, and none for a comment line.
C13_OneCandidatePerTld ==
    (pc = "done" /\ ~ stopped /\ ~ opts.checkcommon /\ ~ tldlistFetch.isNone) =>
        generated = BareCandidates(1)

\* a finished run over a comment line and an upper-case TLD line
C13_Witness ==
    /\ pc = "done" /\ ~ stopped /\ ~ opts.checkcommon
    /\ tldlistFetch = Content("#c\nXYZ\n")
    /\ generated = << [ cand |-> "acme.xyz", line |-> 2 ] >>

\* the concatenation of a sequence of lists
RECURSIVE Flatten(_)
Flatten(ss) == IF Len(ss) = 0 THEN << >> ELSE Head(ss) \o Flatten(Tail(ss))

\* a from position m on can be read off b from position n on, in order
RECURSIVE SubseqFrom(_, _, _, _)
SubseqFrom(a, m, b, n) ==
    IF m > Len(a) THEN TRUE
    ELSE IF n > Len(b) THEN FALSE
    ELSE IF a[m] = b[n] THEN SubseqFrom(a, m + 1, b, n + 1)
    ELSE SubseqFrom(a, m, b, n + 1)

\* C14: the candidates are reported in the order in which they were placed
\* in the lists handed to tryTldWrapper, whatever the order in which the
\* lookups complete.
C14_EmittedInBatchOrder ==
    SubseqFrom(events, 1, Flatten(dispatched), 1)

\* C15: a lookup stores the outcome of its own candidate only, True when it
\* returned and False when it raised, and leaves the main thread where it is;
\* when the result loop starts the dict holds one boolean per distinct
\* candidate of the list.
C15_OutcomePerCandidate ==
    [][ /\ \A th \in threads' \ threads :
              th.phase = "ret" =>
                 /\ DOMAIN tldResults' = DOMAIN tldResults \cup {th.target}
                 /\ tldResults'[th.target] = (th.lookup = "returned")
                 /\ \A x \in DOMAIN tldResults \ {th.target} :
                       tldResults'[x] = tldResults[x]
                 /\ pc' = pc
        /\ pc' = "emit" =>
              /\ DOMAIN tldResults' = Range(tldList')
              /\ \A x \in DOMAIN tldResults' : tldResults'[x] \in BOOLEAN ]_vars

\* the result loop starts on a list in which one lookup raised and another
\* one returned
C15_Witness ==
    /\ pc = "emit"
    /\ pending = DOMAIN tldResults
    /\ \E x, y \in DOMAIN tldResults : tldResults[x] /\ ~ tldResults[y]

\* C16: outcomes do not leak across lists: every call of tryTldWrapper starts
\* from an empty dict, an outcome is stored only by a worker of the list
\* dispatched last, the dict holds candidates of that list only, and an
\* event reports a candidate of that list that resolved.
C16_NoLeakAcrossBatches ==
    [][ /\ dispatched' # dispatched => tldResults' = EmptyDict
        /\ \A th \in threads' \ threads :
              th.phase = "ret" => th.batch = Len(dispatched)
        /\ DOMAIN tldResults' \subseteq Range(tldList')
        /\ events' # events =>
              /\ Last(events') \in Range(tldList)
              /\ Last(events') \in DOMAIN tldResults
              /\ tldResults[Last(events')] ]_vars

\* a second list reports a candidate after a first list reported another one
\* that the second list does not hold
C16_Witness ==
    /\ Len(dispatched) = 2
    /\ pc = "emit"
    /\ Len(events) >= 2
    /\ Last(events) \in Range(tldList)
    /\ events[1] \in Range(dispatched[1])
    /\ events[1] \notin Range(tldList)

\* C17: under a fair scheduler, with lookups and fetches that return or
\* raise, every run terminates: each wait loop is left and start() returns.
C17_Terminates == <>(pc = "done")

\* start() has returned after two lists went through the wait loop
C17_Witness ==
    /\ pc = "done"
    /\ Len(dispatched) >= 2
    /\ nthreads >= 3
    /\ threads = {}

\* C18: with activeonly, when the stop test that precedes the page fetch of
\* a stored candidate finds the run stopped, sendEvent returns: sf.fetchUrl is
\* not called for the candidate and no event is reported for it.
C18_NoFetchWhenStopped ==
    [][ (pc = "gate" /\ opts.activeonly /\ stopped) =>
          (pc' = "emit" /\ probes' = probes /\ events' = events) ]_vars

\* sendEvent has returned for a resolved candidate that was stored while the
\* run was stopped, and no page was fetched for it
C18_Witness ==
    /\ pc = "emit"
    /\ opts.activeonly
    /\ stopped
    /\ results # << >>
    /\ \A n \in 1..Len(probes) : probes[n].url # "http://" \o Last(results)

\* C19: when the run is stopped as an iteration over a TLD or over a sub-TLD
\* begins, the iteration asks no wildcard question, generates no candidate
\* and hands no list to tryTldWrapper.
C19_StopCheckedFirst ==
    [][ (stopped /\ pc \in {"tld", "sub"}) =>
          /\ wildcardCalls' = wildcardCalls
          /\ generated' = generated
          /\ dispatched' = dispatched ]_vars

\* the names of the generated candidates, in order
RECURSIVE Names(_)
Names(gs) == IF Len(gs) = 0 THEN << >> ELSE << Head(gs).cand >> \o Names(Tail(gs))

\* C20: in a run that is not stopped every generated candidate is placed in
\* exactly one list handed to tryTldWrapper: the lists, one after another,
\* are the generated candidates.
C20_NoCandidateLost ==
    (pc = "done" /\ ~ stopped) => Flatten(dispatched) = Names(generated)

====
